---- MODULE Spec2Model ----
(***************************************************************************)
(* Resume Relevance Check System (streamlit_app.py): the document          *)
(* extractor, the two field extractors, the relevance scorer and the       *)
(* session store, as a state machine.                                      *)
(***************************************************************************)
EXTENDS Integers, Sequences, FiniteSets, TLC

(***************************************************************************)
(* Python floats are IEEE-754 binary64.  TLC's integers are 32 bits wide,  *)
(* so a 53-bit significand is kept as a natural number in limbs of 15      *)
(* bits, least significant limb first, without leading zero limbs (zero is *)
(* the empty sequence).                                                    *)
(***************************************************************************)
LimbBits == 15

Base == 32768

Pow2(k) == 2 ^ k

RECURSIVE BNorm(_)
BNorm(n) ==
    IF n = <<>> THEN <<>>
    ELSE IF n[Len(n)] = 0 THEN BNorm(SubSeq(n, 1, Len(n) - 1))
    ELSE n

BFromInt(k) ==
    BNorm(<<k % Base, (k \div Base) % Base, k \div (Base * Base)>>)

RECURSIVE BToInt(_)
BToInt(n) == IF n = <<>> THEN 0 ELSE n[1] + Base * BToInt(Tail(n))

RECURSIVE BMulCarry(_, _, _)
BMulCarry(n, c, carry) ==
    IF n = <<>> THEN BFromInt(carry)
    ELSE LET t == n[1] * c + carry
         IN  <<t % Base>> \o BMulCarry(Tail(n), c, t \div Base)

\* n * c for 0 <= c < 2^16
BMulSmall(n, c) == BNorm(BMulCarry(n, c, 0))

RECURSIVE BDivFrom(_, _, _, _)
\* long division by d < 2^16 from the most significant limb i down, remainder r
BDivFrom(n, d, i, r) ==
    IF i = 0 THEN [q |-> <<>>, r |-> r]
    ELSE LET t    == r * Base + n[i]
             rest == BDivFrom(n, d, i - 1, t % d)
         IN  [q |-> Append(rest.q, t \div d), r |-> rest.r]

BDivSmall(n, d) ==
    LET x == BDivFrom(n, d, Len(n), 0) IN [q |-> BNorm(x.q), r |-> x.r]

RECURSIVE BAddCarry(_, _, _)
BAddCarry(a, b, carry) ==
    IF a = <<>> /\ b = <<>> THEN (IF carry = 0 THEN <<>> ELSE <<carry>>)
    ELSE LET x == IF a = <<>> THEN 0 ELSE a[1]
             y == IF b = <<>> THEN 0 ELSE b[1]
             t == x + y + carry
         IN  <<t % Base>> \o
             BAddCarry(IF a = <<>> THEN <<>> ELSE Tail(a),
                       IF b = <<>> THEN <<>> ELSE Tail(b), t \div Base)

BAdd(a, b) == BNorm(BAddCarry(a, b, 0))

RECURSIVE BCmpFrom(_, _, _)
BCmpFrom(a, b, i) ==
    IF i = 0 THEN 0
    ELSE IF a[i] < b[i] THEN -1
    ELSE IF a[i] > b[i] THEN 1
    ELSE BCmpFrom(a, b, i - 1)

\* -1, 0, 1 as a < b, a = b, a > b
BCmp(a, b) ==
    IF Len(a) < Len(b) THEN -1
    ELSE IF Len(a) > Len(b) THEN 1
    ELSE BCmpFrom(a, b, Len(a))

RECURSIVE IntBitLen(_)
IntBitLen(k) == IF k = 0 THEN 0 ELSE 1 + IntBitLen(k \div 2)

BBitLen(n) ==
    IF n = <<>> THEN 0 ELSE LimbBits * (Len(n) - 1) + IntBitLen(n[Len(n)])

BIsOdd(n) == n # <<>> /\ n[1] % 2 = 1

\* n * 2^k
BShl(n, k) ==
    IF n = <<>> THEN <<>>
    ELSE [i \in 1..(k \div LimbBits) |-> 0] \o BMulSmall(n, Pow2(k % LimbBits))

\* floor(n / 2^k), and whether any bit was shifted out
BShrSticky(n, k) ==
    LET w    == k \div LimbBits
        low  == SubSeq(n, 1, IF w < Len(n) THEN w ELSE Len(n))
        high == SubSeq(n, w + 1, Len(n))
        d    == BDivSmall(high, Pow2(k % LimbBits))
    IN  [q |-> d.q, sticky |-> (d.r # 0) \/ (\E i \in 1..Len(low) : low[i] # 0)]

(***************************************************************************)
(* A finite non-negative double is the dyadic rational m * 2^e, kept with  *)
(* m odd (or m = 0, e = 0) so that equal values are equal records.         *)
(***************************************************************************)
RECURSIVE FCanon(_, _)
FCanon(m, e) ==
    IF m = <<>> THEN [m |-> <<>>, e |-> 0]
    ELSE IF m[1] = 0 THEN FCanon(Tail(m), e + LimbBits)
    ELSE IF m[1] % 2 = 0 THEN FCanon(BDivSmall(m, 2).q, e + 1)
    ELSE [m |-> m, e |-> e]

FInt(k) == FCanon(BFromInt(k), 0)

\* q or q + 1: round-half-to-even of q + half/2 + (a sticky fraction below)
NearestEven(q, half, sticky) ==
    IF half /\ (sticky \/ BIsOdd(q)) THEN BAdd(q, <<1>>) ELSE q

\* the same for a value cut one bit above its last kept bit
NearestEvenOf(cut, sticky) ==
    NearestEven(BDivSmall(cut.q, 2).q, BIsOdd(cut.q), sticky \/ cut.sticky)

\* FRound for a significand of L bits
FRoundBits(m, e, sticky, L) ==
    IF L <= 53 THEN FCanon(m, e)
    ELSE FCanon(NearestEvenOf(BShrSticky(m, L - 54), sticky), e + (L - 53))

\* round-to-nearest, ties-to-even, of (m + sticky fraction) * 2^e to 53 bits
FRound(m, e, sticky) == FRoundBits(m, e, sticky, BBitLen(m))

\* int / int (true division), 0 <= a, 0 < b < 2^16
FDivInt(a, b) ==
    LET d == BDivSmall(BShl(BFromInt(a), 5 * LimbBits), b)
    IN  FRound(d.q, -(5 * LimbBits), d.r # 0)

\* float * int, 0 <= c < 2^16
FMulInt(x, c) == FRound(BMulSmall(x.m, c), x.e, FALSE)

FAdd(x, y) ==
    LET e == IF x.e < y.e THEN x.e ELSE y.e
    IN  FRound(BAdd(BShl(x.m, x.e - e), BShl(y.m, y.e - e)), e, FALSE)

\* -1, 0, 1 as x < y, x = y, x > y
FCmp(x, y) ==
    LET e == IF x.e < y.e THEN x.e ELSE y.e
    IN  BCmp(BShl(x.m, x.e - e), BShl(y.m, y.e - e))

FGe(x, y) == FCmp(x, y) >= 0

\* min(a, b) of Python: the first argument unless the second is smaller
FMin(a, b) == IF FCmp(b, a) < 0 THEN b ELSE a

\* the integer nearest to the exact value of n * 2^e (ties to even)
NearestInt(n, e) ==
    IF e >= 0 THEN BToInt(BShl(n, e))
    ELSE BToInt(NearestEvenOf(BShrSticky(n, (-e) - 1), FALSE))

\* round(x, 2): the nearest multiple of 0.01 to the exact value of x (ties to
\* even), given as the number of hundredths
FRound2(x) == NearestInt(BMulSmall(x.m, 100), x.e)

\* f"{x:.1f}": the nearest multiple of 0.1 to the exact value of x (ties to
\* even), given as the number of tenths
FFormat1(x) == NearestInt(BMulSmall(x.m, 10), x.e)

(***************************************************************************)
(* Bounds of the model.                                                    *)
(***************************************************************************)
\* how many of JobSkillNames a job description's skill lists draw from
MaxJobSkills == 4

\* how many of ResumeSkillNames a resume's skill list draws from
MaxResumeSkills == 2

(***************************************************************************)
(* Strings.  str.lower() on the strings the model uses.                    *)
(***************************************************************************)
\* a slip: lower() left out
Lower_Identity(s) == s

Lower(s) ==
    CASE s = "Python"           -> "python"
      [] s = "SQL"              -> "sql"
      [] s = "AWS"              -> "aws"
      [] s = "Docker"           -> "docker"
      [] s = "JavaScript"       -> "javascript"
      [] s = "MBA"              -> "mba"
      [] s = "B.Tech"           -> "b.tech"
      [] s = "Acme"             -> "acme"
      [] s = "Bot"              -> "bot"
      [] s = "Go"               -> "go"
      [] s = "Required Skills:" -> "required skills:"
      [] s = "Must have:"       -> "must have:"
      [] s = "Mandatory:"       -> "mandatory:"
      [] s = "Good to have:"    -> "good to have:"
      [] s = "Preferred:"       -> "preferred:"
      [] s = "Nice to have:"    -> "nice to have:"
      [] s = "Skills:"          -> "skills:"
      [] s = "Experience:"      -> "experience:"
      [] s = "Projects:"        -> "projects:"
      [] s = "PDF"              -> "pdf"
      [] s = "TXT"              -> "txt"
      [] OTHER                  -> s

\* the skill names of the model; both parsers produce lower-case names only
JobSkillNames == <<"python", "sql", "aws", "docker", "react">>

ResumeSkillNames == <<"python", "sql", "aws", "docker", "react">>

Min(a, b) == IF a < b THEN a ELSE b

Range(f) == { f[i] : i \in DOMAIN f }

\* the lists without repetition over the first n names, in the names' order
ListsOver(names, n) ==
    { SelectSeq(SubSeq(names, 1, Min(n, Len(names))), LAMBDA w : w \in S) :
        S \in SUBSET { names[i] : i \in 1..Min(n, Len(names)) } }

\* list(a_set): the elements once each, in an order the hash seed decides
Orderings(S) ==
    { f \in [1..Cardinality(S) -> S] : \A i, j \in DOMAIN f : i # j => f[i] # f[j] }

(***************************************************************************)
(* Text.  A Python str is a sequence of pieces, each piece a run of        *)
(* characters that the program's string operations never cut: a white-     *)
(* space character, a separator, a section heading, a word.  The string is *)
(* the concatenation of its pieces.                                        *)
(***************************************************************************)
\* a code point U+D800..U+DFFF on its own, which str.encode() rejects
Surrogate == "\\ud800"

\* \s of the regular expressions, and what str.strip() removes
IsSpace(a) == a \in {" ", "\n", "\t"}

\* the character class [,;\|\n(bullet)\-] that re.split cuts at
IsSeparator(a) == a \in {",", ";", "|", "\n", "-"}

RECURSIVE Join(_)
\* the str a sequence of pieces spells
Join(t) == IF t = <<>> THEN "" ELSE Head(t) \o Join(Tail(t))

RECURSIVE LStrip(_)
LStrip(t) == IF t # <<>> /\ IsSpace(Head(t)) THEN LStrip(Tail(t)) ELSE t

RECURSIVE RStrip(_)
RStrip(t) ==
    IF t # <<>> /\ IsSpace(t[Len(t)]) THEN RStrip(SubSeq(t, 1, Len(t) - 1)) ELSE t

\* str.strip()
Strip(t) == RStrip(LStrip(t))

RECURSIVE Collapse(_)
\* re.sub(r'\s+', ' ', text)
Collapse(t) ==
    IF t = <<>> THEN <<>>
    ELSE IF IsSpace(Head(t)) THEN <<" ">> \o Collapse(LStrip(t))
    ELSE <<Head(t)>> \o Collapse(Tail(t))

\* a slip: the text only stripped, its inner white space kept
_clean_text_StripOnly(text) == Strip(text)

\* ResumeParser._clean_text and JobDescriptionParser._clean_text
_clean_text(text) == Strip(Collapse(text))

\* text.lower(), piece by piece
LowerText(t) == [i \in DOMAIN t |-> Lower(t[i])]

RECURSIVE CharLen(_)
\* len(text)
CharLen(t) == IF t = <<>> THEN 0 ELSE Len(Head(t)) + CharLen(Tail(t))

RECURSIVE Slice(_, _)
\* text[:n], for a cut that falls between two pieces
Slice(t, n) ==
    IF t = <<>> \/ Len(Head(t)) > n THEN <<>>
    ELSE <<Head(t)>> \o Slice(Tail(t), n - Len(Head(t)))

RECURSIVE Split(_)
\* re.split(r'[,;\|\n(bullet)\-]', text): the stretches between separators
Split(t) ==
    IF \A i \in DOMAIN t : ~IsSeparator(t[i]) THEN <<t>>
    ELSE LET k == CHOOSE i \in DOMAIN t :
                      IsSeparator(t[i]) /\ \A j \in 1..(i - 1) : ~IsSeparator(t[j])
         IN  <<SubSeq(t, 1, k - 1)>> \o Split(SubSeq(t, k + 1, Len(t)))

\* [s.strip().lower() for s in extracted if s.strip() and len(s.strip()) > 2]
Tokens(section) ==
    LET parts == Split(section)
        kept  == SelectSeq(parts, LAMBDA s : Strip(s) # <<>> /\ CharLen(Strip(s)) > 2)
    IN  [i \in DOMAIN kept |-> Join(LowerText(Strip(kept[i])))]

\* the index of the first piece a heading pattern matches, 0 when none does
FirstMatch(t, heads) ==
    IF \E i \in DOMAIN t : t[i] \in heads
    THEN CHOOSE i \in DOMAIN t : t[i] \in heads /\ \A j \in 1..(i - 1) : t[j] \notin heads
    ELSE 0

\* group(1) of  heading \s*:?\s*([^\n]+(?:\n[^\n]*)*?)(?:\n\s*\n|\Z)  matched at
\* piece i of a cleaned text (no line break is left in it): the rest of the
\* text after the white space that follows the heading; when nothing follows,
\* the optional ':' (or 's') of the heading is given back to the group
Section(t, i) ==
    LET rest == LStrip(SubSeq(t, i + 1, Len(t)))
    IN  IF rest = <<>> THEN <<":">> ELSE rest

\* the pieces each pattern matches, ignoring case
RequiredSkillsHeads == {"Required Skills:", "required skills:"}

MustHaveHeads == {"Must have:", "must have:"}

MandatoryHeads == {"Mandatory:", "mandatory:"}

GoodToHaveHeads == {"Good to have:", "good to have:"}

PreferredHeads == {"Preferred:", "preferred:"}

NiceToHaveHeads == {"Nice to have:", "nice to have:"}

\* skills?  also matches inside "Required Skills:"
SkillsHeads == {"Skills:", "skills:"} \cup RequiredSkillsHeads

ExperienceHeads == {"Experience:", "experience:"}

ProjectsHeads == {"Projects:", "projects:"}

\* the words of a vocabulary that occur in a lower-cased piece
WordsIn(a) ==
    CASE a = "python"     -> {"python"}
      [] a = "sql"        -> {"sql"}
      [] a = "aws"        -> {"aws"}
      [] a = "docker"     -> {"docker"}
      [] a = "react"      -> {"react"}
      [] a = "javascript" -> {"java", "javascript"}
      [] a = "mba"        -> {"mba"}
      [] a = "b.tech"     -> {"b.tech"}
      [] OTHER            -> {}

\* [w for w in vocabulary if w in text_lower]
Hits(vocabulary, text) ==
    SelectSeq(vocabulary, LAMBDA w : \E i \in DOMAIN text : w \in WordsIn(Lower(text[i])))

\* list(set(skills))[:cap], in each order the set may be listed
ListSetCut(skills, cap) ==
    { SubSeq(o, 1, Min(cap, Len(o))) : o \in Orderings(Range(skills)) }

\* whether f"...".encode() succeeds on the text
Encodable(t) == \A i \in DOMAIN t : t[i] # Surrogate

(***************************************************************************)
(* DocumentProcessor.  An uploaded file is its extension and what reading  *)
(* it does: whether the temporary copy can be written, whether the bytes   *)
(* are UTF-8 and the text they spell, and for each of the two extraction   *)
(* passes (pdfplumber then PyPDF2, docx2txt then python-docx) whether it   *)
(* succeeds and the page or paragraph texts it yields before it ends.      *)
(***************************************************************************)
RECURSIVE PlumberText(_)
\* for page in pdf.pages: if page_text: text += page_text + "\n"
PlumberText(pages) ==
    IF pages = <<>> THEN <<>>
    ELSE (IF Head(pages) # <<>> THEN Head(pages) \o <<"\n">> ELSE <<>>)
         \o PlumberText(Tail(pages))

RECURSIVE PyPdfText(_)
\* for page in reader.pages: text += page.extract_text() + "\n"
PyPdfText(pages) ==
    IF pages = <<>> THEN <<>> ELSE Head(pages) \o <<"\n">> \o PyPdfText(Tail(pages))

RECURSIVE ParagraphText(_)
\* "\n".join([para.text for para in doc.paragraphs])
ParagraphText(paras) ==
    IF paras = <<>> THEN <<>>
    ELSE IF Len(paras) = 1 THEN Head(paras)
    ELSE Head(paras) \o <<"\n">> \o ParagraphText(Tail(paras))

Extraction(text, errors, raised, leaked) ==
    [text |-> text, errors |-> errors, raised |-> raised, leaked |-> leaked]

\* extract_text_from_pdf: the text returned, the st.error messages, and how
\* many temporary files are left on disk when it returns
extract_text_from_pdf(file, pdf_available) ==
    IF ~pdf_available THEN Extraction(<<>>, <<>>, FALSE, 0)
    ELSE IF ~file.write_ok
         \* tmp_file.write raises: the file exists, os.unlink is never reached
         THEN Extraction(<<>>, <<"PDF processing failed">>, FALSE, 1)
    ELSE IF file.first.ok
         THEN Extraction(Strip(PlumberText(file.first.pages)), <<>>, FALSE, 0)
    ELSE IF file.second.ok
         \* the fallback appends to what the first pass had gathered
         THEN Extraction(Strip(PlumberText(file.first.pages) \o PyPdfText(file.second.pages)),
                         <<>>, FALSE, 0)
    \* the fallback raises inside the bare except: os.unlink is skipped
    ELSE Extraction(Strip(PlumberText(file.first.pages) \o PyPdfText(file.second.pages)),
                    <<"PDF processing failed">>, FALSE, 1)

\* extract_text_from_docx; without the libraries docx2txt is an undefined name
extract_text_from_docx(file, pdf_available) ==
    IF ~file.write_ok
    THEN Extraction(<<>>, <<"File processing failed">>, FALSE, 1)
    ELSE IF ~pdf_available \/ ~file.first.ok
         THEN Extraction(<<>>, <<"DOCX processing failed">>, FALSE, 0)
    ELSE IF ParagraphText(file.first.pages) # <<>>
         THEN Extraction(Strip(ParagraphText(file.first.pages)), <<>>, FALSE, 0)
    ELSE IF file.second.ok
         THEN Extraction(Strip(ParagraphText(file.second.pages)), <<>>, FALSE, 0)
    ELSE Extraction(<<>>, <<"DOCX processing failed">>, FALSE, 0)

\* a slip: an unknown extension read as plain text
extract_text_AnyAsText(file, pdf_available) ==
    LET file_ext == Lower(file.ext)
    IN  IF file_ext = "pdf" THEN extract_text_from_pdf(file, pdf_available)
        ELSE IF file_ext \in {"docx", "doc"} THEN extract_text_from_docx(file, pdf_available)
        ELSE IF file.utf8_ok THEN Extraction(file.text, <<>>, FALSE, 0)
        ELSE Extraction(<<>>, <<>>, TRUE, 0)

\* extract_text for an uploaded file: raised says that an exception left it
extract_text(file, pdf_available) ==
    LET file_ext == Lower(file.ext)
    IN  IF file_ext = "pdf" THEN extract_text_from_pdf(file, pdf_available)
        ELSE IF file_ext \in {"docx", "doc"} THEN extract_text_from_docx(file, pdf_available)
        ELSE IF file_ext = "txt"
             \* file_bytes.decode('utf-8') raises UnicodeDecodeError on other bytes
             THEN IF file.utf8_ok THEN Extraction(file.text, <<>>, FALSE, 0)
                  ELSE Extraction(<<>>, <<>>, TRUE, 0)
        ELSE Extraction(<<>>, <<"Unsupported file format">>, FALSE, 0)

(***************************************************************************)
(* ResumeParser                                                            *)
(***************************************************************************)
ResumeVocabulary ==
    <<"python", "java", "javascript", "react", "angular", "vue", "node.js",
      "django", "flask", "spring", "docker", "kubernetes", "aws", "azure",
      "gcp", "git", "jenkins", "machine learning", "deep learning", "nlp",
      "data science", "sql", "mongodb", "postgresql", "mysql", "html", "css",
      "tensorflow", "pytorch", "pandas", "numpy", "scikit-learn", "c++",
      "devops", "agile", "scrum", "analytics", "tableau", "powerbi">>

Degrees ==
    <<"bachelor", "master", "phd", "b.tech", "m.tech", "mba", "b.e", "m.e", "bsc", "msc">>

\* degree.upper()
Upper(s) ==
    CASE s = "mba"    -> "MBA"
      [] s = "b.tech" -> "B.TECH"
      [] OTHER        -> s

RECURSIVE AppendNew(_, _)
\* for skill in extracted: if len(clean_skill) > 2 and clean_skill not in skills: append
AppendNew(skills, tokens) ==
    IF tokens = <<>> THEN skills
    ELSE AppendNew(IF Head(tokens) \in Range(skills) THEN skills
                   ELSE Append(skills, Head(tokens)), Tail(tokens))

\* ResumeParser._extract_skills: every order list(set(skills)) may come in
Resume_extract_skills(text) ==
    LET found == Hits(ResumeVocabulary, text)
        i     == FirstMatch(text, SkillsHeads)
        all   == IF i # 0 THEN AppendNew(found, Tokens(Section(text, i))) ELSE found
    IN  Orderings(Range(all))

_extract_experience(text) ==
    LET i == FirstMatch(text, ExperienceHeads)
    IN  IF i # 0 THEN <<[description |-> Join(Slice(Section(text, i), 300))]>> ELSE <<>>

_extract_education(text) ==
    LET found == Hits(Degrees, text)
    IN  [i \in DOMAIN found |-> [degree |-> Upper(found[i])]]

_extract_projects(text) ==
    LET i == FirstMatch(text, ProjectsHeads)
    IN  IF i # 0 THEN <<[description |-> Join(Slice(Section(text, i), 300))]>> ELSE <<>>

\* hashlib.md5(f"...{text[:100]}_{datetime.now()}".encode()) raises
\* UnicodeEncodeError when the first 100 characters hold a lone surrogate
IdRaises(text) == ~Encodable(Slice(_clean_text(text), 100))

\* the ids the hash of content and time can come to
ResumeIds == {"r1"}

JobIds == {"j1"}

\* ResumeParser.parse, when it does not raise: every Resume it can return
ResumeParses(raw) ==
    LET text == _clean_text(raw)
    IN  { [id |-> id, skills |-> sk, experience |-> _extract_experience(text),
           education |-> _extract_education(text),
           projects |-> _extract_projects(text)] :
            id \in ResumeIds, sk \in Resume_extract_skills(text) }

(***************************************************************************)
(* JobDescriptionParser                                                    *)
(***************************************************************************)
JobVocabulary == <<"python", "java", "javascript", "react", "sql", "aws", "docker">>

\* the tokens of the section of the first heading pattern, in the patterns'
\* order, that matches the text
FirstSectionTokens(text, patterns) ==
    LET hit == SelectSeq(patterns, LAMBDA heads : FirstMatch(text, heads) # 0)
    IN  IF hit = <<>> THEN <<>>
        ELSE Tokens(Section(text, FirstMatch(text, Head(hit))))

_extract_must_have_skills(text) ==
    LET skills == FirstSectionTokens(text, <<RequiredSkillsHeads, MustHaveHeads, MandatoryHeads>>)
    IN  ListSetCut(IF skills = <<>> THEN Hits(JobVocabulary, text) ELSE skills, 15)

_extract_good_to_have_skills(text) ==
    ListSetCut(FirstSectionTokens(text, <<GoodToHaveHeads, PreferredHeads, NiceToHaveHeads>>), 10)

\* JobDescriptionParser.parse, when it does not raise: every JobDescription
\* it can return
JobParses(raw, company, location) ==
    LET text == _clean_text(raw)
    IN  { [id |-> id, company |-> company, location |-> location,
           must_have_skills |-> must, good_to_have_skills |-> good,
           description |-> text] :
            id \in JobIds, must \in _extract_must_have_skills(text),
            good \in _extract_good_to_have_skills(text) }

(***************************************************************************)
(* RelevanceEvaluator                                                      *)
(***************************************************************************)
\* set([s.lower() for s in skills])
LowerSet(skills) == { Lower(skills[i]) : i \in DOMAIN skills }

matched_must_have(resume, job_desc) ==
    LowerSet(resume.skills) \cap LowerSet(job_desc.must_have_skills)

matched_good_to_have(resume, job_desc) ==
    LowerSet(resume.skills) \cap LowerSet(job_desc.good_to_have_skills)

MatchedSet(resume, job_desc) ==
    matched_must_have(resume, job_desc) \cup matched_good_to_have(resume, job_desc)

\* a slip: gaps in the good-to-have list reported as missing too
missing_AnyJobSkill(resume, job_desc) ==
    (LowerSet(job_desc.must_have_skills) \cup LowerSet(job_desc.good_to_have_skills))
        \ LowerSet(resume.skills)

missing_must_have(resume, job_desc) ==
    LowerSet(job_desc.must_have_skills) \ LowerSet(resume.skills)

\* a slip: an empty must-have set counted as fully covered
MustHavePoints_EmptyIsFull(n_matched, n_must) ==
    IF n_must # 0 THEN FMulInt(FDivInt(n_matched, n_must), 50) ELSE FInt(50)

\* a slip: the missing must-have skills counted instead of the matched ones
MustHavePoints_CountsMissing(n_matched, n_must) ==
    IF n_must # 0 THEN FMulInt(FDivInt(n_must - n_matched, n_must), 50) ELSE FInt(0)

\* what "if must_have_skills: score += (len(matched_must_have) / len(must_have_skills)) * 50" adds
MustHavePoints(n_matched, n_must) ==
    IF n_must # 0 THEN FMulInt(FDivInt(n_matched, n_must), 50) ELSE FInt(0)

\* what "if good_to_have_skills: score += (len(matched_good_to_have) / len(good_to_have_skills)) * 20" adds
GoodToHavePoints(n_matched, n_good) ==
    IF n_good # 0 THEN FMulInt(FDivInt(n_matched, n_good), 20) ELSE FInt(0)

\* "if resume.<section>: score += points"
SectionBonus(present, points, score) ==
    IF present THEN FAdd(score, FInt(points)) ELSE score

\* the local variable score of evaluate after "score = min(100, score)", from
\* the four set sizes and the three section tests it is computed from
ScoreSteps(n_matched_must, n_must, n_matched_good, n_good, has_exp, has_edu, has_proj) ==
    FMin(FInt(100),
         SectionBonus(has_proj, 5,
           SectionBonus(has_edu, 10,
             SectionBonus(has_exp, 15,
               FAdd(FAdd(FInt(0), MustHavePoints(n_matched_must, n_must)),
                    GoodToHavePoints(n_matched_good, n_good))))))

\* what the score is computed from: the four set sizes and the three section tests
ScoreKey(resume, job_desc) ==
    <<Cardinality(matched_must_have(resume, job_desc)),
      Cardinality(LowerSet(job_desc.must_have_skills)),
      Cardinality(matched_good_to_have(resume, job_desc)),
      Cardinality(LowerSet(job_desc.good_to_have_skills)),
      resume.experience # <<>>,
      resume.education # <<>>,
      resume.projects # <<>>>>

\* ScoreSteps tabulated for the set sizes the model reaches (the comparison
\* makes TLC compute the table once instead of at every use)
MaxSetSize == Min(MaxJobSkills, Len(JobSkillNames))

Computed(t) == IF t = t THEN t ELSE t

ScoreTable ==
    Computed([k \in { c \in (0..MaxSetSize) \X (0..MaxSetSize) \X (0..MaxSetSize)
                            \X (0..MaxSetSize) \X BOOLEAN \X BOOLEAN \X BOOLEAN :
                          c[1] <= c[2] /\ c[3] <= c[4] }
                |-> ScoreSteps(k[1], k[2], k[3], k[4], k[5], k[6], k[7])])

\* the score evaluate computes for the pair, before it is rounded for the result
Score(resume, job_desc) == ScoreTable[ScoreKey(resume, job_desc)]

\* a slip: the HIGH threshold taken as strict
Verdict_StrictHigh(score) ==
    IF ~FGe(FInt(75), score) THEN "HIGH"
    ELSE IF FGe(score, FInt(50)) THEN "MEDIUM"
    ELSE "LOW"

Verdict(score) ==
    IF FGe(score, FInt(75)) THEN "HIGH"
    ELSE IF FGe(score, FInt(50)) THEN "MEDIUM"
    ELSE "LOW"

_generate_feedback(score, matched_skills, missing_skills) ==
    <<"Overall relevance score: ", FFormat1(score), "%">>
    \o (IF matched_skills # <<>>
        THEN <<" | Matched ", Len(matched_skills), " skills">> ELSE <<>>)
    \o (IF missing_skills # <<>>
        THEN <<" | Missing ", Len(missing_skills), " key skills">> ELSE <<>>)

LearnLine(missing_skills) ==
    [text |-> "Learn these key skills: ",
     skills |-> SubSeq(missing_skills, 1, Min(3, Len(missing_skills)))]

ProjectsLine ==
    [text |-> "Add relevant projects to showcase your skills", skills |-> <<>>]

ExperienceLine ==
    [text |-> "Gain practical experience through internships or freelance work",
     skills |-> <<>>]

ClosingTip ==
    [text |-> "Optimize your resume keywords for better ATS compatibility",
     skills |-> <<>>]

\* a slip: the experience line put before the projects line
_generate_suggestions_ExperienceFirst(missing_skills, resume) ==
    (IF missing_skills # <<>> THEN <<LearnLine(missing_skills)>> ELSE <<>>)
    \o (IF resume.experience = <<>> THEN <<ExperienceLine>> ELSE <<>>)
    \o (IF resume.projects = <<>> THEN <<ProjectsLine>> ELSE <<>>)
    \o <<ClosingTip>>

_generate_suggestions(missing_skills, resume) ==
    (IF missing_skills # <<>> THEN <<LearnLine(missing_skills)>> ELSE <<>>)
    \o (IF resume.projects = <<>> THEN <<ProjectsLine>> ELSE <<>>)
    \o (IF resume.experience = <<>> THEN <<ExperienceLine>> ELSE <<>>)
    \o <<ClosingTip>>

\* a slip: the two identifiers handed over in the wrong order
EvaluationResult_IdsSwapped(resume, job_desc, score, matched_skills, missing_skills) ==
    [resume_id       |-> job_desc.id,
     job_id          |-> resume.id,
     relevance_score |-> FRound2(score),
     matched_skills  |-> matched_skills,
     missing_skills  |-> missing_skills,
     verdict         |-> Verdict(score),
     feedback        |-> _generate_feedback(score, matched_skills, missing_skills),
     suggestions     |-> _generate_suggestions(missing_skills, resume)]

\* the EvaluationResult evaluate builds from its local variables
EvaluationResult(resume, job_desc, score, matched_skills, missing_skills) ==
    [resume_id       |-> resume.id,
     job_id          |-> job_desc.id,
     relevance_score |-> FRound2(score),
     matched_skills  |-> matched_skills,
     missing_skills  |-> missing_skills,
     verdict         |-> Verdict(score),
     feedback        |-> _generate_feedback(score, matched_skills, missing_skills),
     suggestions     |-> _generate_suggestions(missing_skills, resume)]

\* evaluate, given the orders in which the two sets are listed
evaluate(resume, job_desc, matched_skills, missing_skills) ==
    EvaluationResult(resume, job_desc, Score(resume, job_desc),
                     matched_skills, missing_skills)

\* every result evaluate can return for the pair
Evaluations(resume, job_desc) ==
    { evaluate(resume, job_desc, ma, mi) :
        ma \in Orderings(MatchedSet(resume, job_desc)),
        mi \in Orderings(missing_must_have(resume, job_desc)) }

(***************************************************************************)
(* More bounds of the model.                                               *)
(***************************************************************************)
\* job descriptions the session holds at most
MaxJobs == 2

\* evaluation results the session holds at most
MaxEvals == 1

\* temporary files left on disk that are counted
MaxTmpFiles == 1

(***************************************************************************)
(* State                                                                   *)
(***************************************************************************)
VARIABLES
    job_descriptions, \* st.session_state.job_descriptions
    evaluations,      \* st.session_state.evaluations
    tmp_files,        \* temporary files of DocumentProcessor left on disk
    PDF_AVAILABLE,    \* whether the four document libraries were imported
    last,             \* the last UI action: what it was given and what it reported
    resume,           \* evaluate on its own: the Resume handed to it
    job_desc,         \* evaluate on its own: the JobDescription handed to it
    evaluation,       \* evaluate on its own: the EvaluationResult, or NoResult
    file_bytes,       \* extract_text_from_pdf on its own: the file handed to it
    extraction,       \* extract_text_from_pdf on its own: what it returned and did, or NoCall
    jd_document,      \* JobDescriptionParser.parse on its own: the text handed to it
    parsed_job        \* JobDescriptionParser.parse on its own: the JobDescription, or NoCall

vars == <<job_descriptions, evaluations, tmp_files, PDF_AVAILABLE, last,
          resume, job_desc, evaluation,
          file_bytes, extraction, jd_document, parsed_job>>

session == <<job_descriptions, evaluations, tmp_files, PDF_AVAILABLE, last>>

call == <<resume, job_desc, evaluation>>

pdf_call == <<file_bytes, extraction>>

parse_call == <<jd_document, parsed_job>>

NoResult == [verdict |-> "none"]

NoCall == [id |-> "none"]

ExperienceLists == {<<>>, <<[description |-> "2 years at Acme"]>>}

EducationLists == {<<>>, <<[degree |-> "MBA"]>>}

ProjectLists == {<<>>, <<[description |-> "resume screener"]>>}

\* the records the two parsers can hand to evaluate: lower-case skill names,
\* none twice
Resumes ==
    [id : {"r1"}, skills : ListsOver(ResumeSkillNames, MaxResumeSkills),
     experience : ExperienceLists, education : EducationLists,
     projects : ProjectLists]

JobDescriptions ==
    [id : {"j1"},
     must_have_skills : ListsOver(JobSkillNames, MaxJobSkills),
     good_to_have_skills : ListsOver(JobSkillNames, MaxJobSkills)]

(***************************************************************************)
(* What the user can type and upload.                                      *)
(***************************************************************************)
DocumentText == <<"Python", "\n", "Experience:", " ", "Acme", " ", "MBA">>

BlankText == <<" ", "\n">>

SurrogateText == <<"Python", Surrogate>>

Companies == {"", "Acme"}

Locations == {"Pune"}

PastedTexts == {<<>>, BlankText, DocumentText}

Pass(ok, pages) == [ok |-> ok, pages |-> pages]

File(ext, write_ok, utf8_ok, text, first, second) ==
    [ext |-> ext, write_ok |-> write_ok, utf8_ok |-> utf8_ok, text |-> text,
     first |-> first, second |-> second]

NoPass == Pass(TRUE, <<>>)

NoFile == File("", TRUE, TRUE, <<>>, NoPass, NoPass)

TxtFiles ==
    { File("txt", TRUE, TRUE, t, NoPass, NoPass) : t \in {<<>>, BlankText, DocumentText} }
    \cup { File("txt", TRUE, FALSE, <<>>, NoPass, NoPass) }

PdfFiles ==
    { File("pdf", FALSE, TRUE, <<>>, NoPass, NoPass),
      File("PDF", TRUE, TRUE, <<>>, Pass(TRUE, <<DocumentText>>), NoPass) }
    \cup { File("pdf", TRUE, TRUE, <<>>, Pass(TRUE, pages), NoPass) :
             pages \in {<<>>, <<DocumentText>>, <<SurrogateText>>} }
    \cup { File("pdf", TRUE, TRUE, <<>>, Pass(FALSE, partial), second) :
             partial \in {<<>>, <<DocumentText>>},
             second \in {Pass(TRUE, <<DocumentText>>), Pass(FALSE, <<>>)} }

DocxFiles ==
    { File("docx", FALSE, TRUE, <<>>, NoPass, NoPass),
      File("docx", TRUE, TRUE, <<>>, Pass(TRUE, <<DocumentText>>), NoPass),
      File("doc", TRUE, TRUE, <<>>, Pass(TRUE, <<>>), Pass(TRUE, <<DocumentText>>)),
      File("docx", TRUE, TRUE, <<>>, Pass(TRUE, <<>>), Pass(FALSE, <<>>)),
      File("docx", TRUE, TRUE, <<>>, Pass(FALSE, <<>>), NoPass) }

OtherFiles == { File("rtf", TRUE, TRUE, DocumentText, NoPass, NoPass) }

Files == TxtFiles \cup PdfFiles \cup DocxFiles \cup OtherFiles

(***************************************************************************)
(* The pages of the app.  Each action is one run of the script with the    *)
(* page selected and the widgets as the user left them.                    *)
(***************************************************************************)
\* what a run of a page leaves to be seen: the widgets' values it read, the
\* st.error and st.warning messages, whether extract_text failed or raised,
\* whether the parser ran, and whether an exception ended the run
Report(action, button, company, ext, no_text, failed, raised, parsed, errors, warnings, uncaught) ==
    [action |-> action, button |-> button, company |-> company, ext |-> ext,
     no_text |-> no_text, failed |-> failed, raised |-> raised, parsed |-> parsed,
     errors |-> errors, warnings |-> warnings, uncaught |-> uncaught]

Idle(action) ==
    Report(action, FALSE, "", "", TRUE, FALSE, FALSE, "no", <<>>, <<>>, FALSE)

NoExtraction == Extraction(<<>>, <<>>, FALSE, 0)

\* a slip: the company name not checked
Validation_TextOnly(company, jd_text) ==
    IF jd_text = <<>>
    THEN <<"Please provide job description text or upload a file!">>
    ELSE <<>>

\* the two checks behind the button of upload_job_description: the st.error
\* message of the first that fails
Validation(company, jd_text) ==
    IF company = "" THEN <<"Company name is required!">>
    ELSE IF jd_text = <<>>
    THEN <<"Please provide job description text or upload a file!">>
    ELSE <<>>

\* a slip: the exception reported and raised again
Caught_Reraised(message) == [errors |-> <<message>>, uncaught |-> TRUE]

\* "except Exception as e: st.error(...)" of the two pages
Caught(message) == [errors |-> <<message>>, uncaught |-> FALSE]

\* a slip: the record put at the front of the list
append_AtFront(list, record) == <<record>> \o list

\* list.append(record)
append(list, record) == Append(list, record)

Init ==
    /\ job_descriptions = <<>>
    /\ evaluations = <<>>
    /\ tmp_files = 0
    /\ PDF_AVAILABLE \in BOOLEAN
    /\ last = Idle("start")
    /\ resume = NoCall
    /\ job_desc = NoCall
    /\ evaluation = NoResult
    /\ file_bytes = NoFile
    /\ extraction = NoCall
    /\ jd_document = <<>>
    /\ parsed_job = NoCall

\* upload_job_description, with the widgets' values
UploadJobDescriptionWith(company, location, input_method, pasted, uploaded_file, button) ==
    LET ex      == IF input_method = "Upload file" /\ uploaded_file # NoFile
                   THEN extract_text(uploaded_file, PDF_AVAILABLE)
                   ELSE NoExtraction
        jd_text == IF input_method = "Paste text" THEN pasted ELSE ex.text
        ext     == IF input_method = "Upload file" THEN uploaded_file.ext ELSE ""
        invalid == Validation(company, jd_text)
        Done(pressed, parsed, errors, uncaught) ==
            Report("upload_job_description", pressed, company, ext, jd_text = <<>>,
                   ex.errors # <<>>, ex.raised, parsed, ex.errors \o errors, <<>>,
                   uncaught)
    IN  /\ tmp_files + ex.leaked <= MaxTmpFiles
        /\ tmp_files' = tmp_files + ex.leaked
        /\ UNCHANGED <<evaluations, PDF_AVAILABLE>>
        /\ IF ex.raised
           \* nothing is around the call of line 514: the run ends there, before
           \* the button is drawn
           THEN /\ last' = Done(FALSE, "no", <<>>, TRUE)
                /\ UNCHANGED job_descriptions
           ELSE IF ~button
           THEN /\ last' = Done(FALSE, "no", <<>>, FALSE)
                /\ UNCHANGED job_descriptions
           ELSE IF invalid # <<>>
           THEN /\ last' = Done(TRUE, "no", invalid, FALSE)
                /\ UNCHANGED job_descriptions
           ELSE IF IdRaises(jd_text)
           THEN /\ last' = Done(TRUE, "raised",
                                Caught("Error parsing job description").errors,
                                Caught("Error parsing job description").uncaught)
                /\ UNCHANGED job_descriptions
           ELSE /\ Len(job_descriptions) < MaxJobs
                /\ \E parsed \in JobParses(jd_text, company, location) :
                       job_descriptions' = append(job_descriptions, parsed)
                /\ last' = Done(TRUE, "ok", <<>>, FALSE)

UploadJobDescription ==
    /\ \E company \in Companies, location \in Locations, button \in BOOLEAN :
          \/ \E pasted \in PastedTexts :
                UploadJobDescriptionWith(company, location, "Paste text", pasted, NoFile, button)
          \/ \E uploaded_file \in Files \cup {NoFile} :
                UploadJobDescriptionWith(company, location, "Upload file", <<>>,
                                         uploaded_file, button)
    /\ UNCHANGED <<call, pdf_call, parse_call>>

\* upload_resume once a job description exists, with the widgets' values
UploadResumeWith(selected_job_idx, uploaded_resume, button) ==
    LET selected_job == job_descriptions[selected_job_idx]
        pressed == uploaded_resume # NoFile /\ button
        ex  == IF pressed THEN extract_text(uploaded_resume, PDF_AVAILABLE)
               ELSE NoExtraction
        Done(parsed, errors, uncaught) ==
            Report("upload_resume", pressed, "", uploaded_resume.ext, ex.text = <<>>,
                   ex.errors # <<>>, ex.raised, parsed, ex.errors \o errors, <<>>,
                   uncaught)
    IN  /\ tmp_files + ex.leaked <= MaxTmpFiles
        /\ tmp_files' = tmp_files + ex.leaked
        /\ UNCHANGED <<job_descriptions, PDF_AVAILABLE>>
        /\ IF ~pressed
           THEN /\ last' = Done("no", <<>>, FALSE)
                /\ UNCHANGED evaluations
           ELSE IF ex.raised
           \* extract_text is called inside the try of line 605
           THEN /\ last' = Done("no", Caught("Error processing resume").errors,
                                Caught("Error processing resume").uncaught)
                /\ UNCHANGED evaluations
           ELSE IF ex.text = <<>>
           THEN /\ last' = Done("no",
                                <<"Could not extract text from the resume. Please try a different file.">>,
                                FALSE)
                /\ UNCHANGED evaluations
           ELSE IF IdRaises(ex.text)
           THEN /\ last' = Done("raised", Caught("Error processing resume").errors,
                                Caught("Error processing resume").uncaught)
                /\ UNCHANGED evaluations
           ELSE /\ Len(evaluations) < MaxEvals
                /\ \E parsed \in ResumeParses(ex.text) :
                     \E result \in Evaluations(parsed, selected_job) :
                       evaluations' = append(evaluations, result)
                /\ last' = Done("ok", <<>>, FALSE)

UploadResume ==
    /\ IF job_descriptions = <<>>
       THEN /\ last' = [Idle("upload_resume") EXCEPT
                          !.warnings = <<"Please upload at least one job description first!">>]
            /\ UNCHANGED <<job_descriptions, evaluations, tmp_files, PDF_AVAILABLE>>
       ELSE \E selected_job_idx \in DOMAIN job_descriptions,
               uploaded_resume \in Files \cup {NoFile}, button \in BOOLEAN :
                UploadResumeWith(selected_job_idx, uploaded_resume, button)
    /\ UNCHANGED <<call, pdf_call, parse_call>>

\* what view_results shows when no stored job description has the id
UnknownJob == [id |-> "Unknown Job"]

\* next((jd for jd in job_descriptions if jd.id == eval.job_id), None) of
\* view_results, for the result at position i of evaluations
job(i) ==
    LET found == SelectSeq(job_descriptions, LAMBDA jd : jd.id = evaluations[i].job_id)
    IN  IF found # <<>> THEN Head(found) ELSE UnknownJob

\* view_results: it reads the two lists and writes nothing
ViewResults ==
    /\ last' = Idle("view_results")
    /\ UNCHANGED <<job_descriptions, evaluations, tmp_files, PDF_AVAILABLE>>
    /\ UNCHANGED <<call, pdf_call, parse_call>>

\* the About page
AboutPage ==
    /\ last' = Idle("about")
    /\ UNCHANGED <<job_descriptions, evaluations, tmp_files, PDF_AVAILABLE>>
    /\ UNCHANGED <<call, pdf_call, parse_call>>

Next == UploadJobDescription \/ UploadResume \/ ViewResults \/ AboutPage

Spec == Init /\ [][Next]_vars

(***************************************************************************)
(* SpecEval: evaluate as a function of its two arguments.                  *)
(***************************************************************************)
InitEval ==
    /\ resume \in Resumes
    /\ job_desc \in JobDescriptions
    /\ evaluation = NoResult
    /\ job_descriptions = <<>>
    /\ evaluations = <<>>
    /\ tmp_files = 0
    /\ PDF_AVAILABLE = TRUE
    /\ last = Idle("start")
    /\ file_bytes = NoFile
    /\ extraction = NoCall
    /\ jd_document = <<>>
    /\ parsed_job = NoCall

Evaluate ==
    /\ evaluation = NoResult
    /\ evaluation' \in Evaluations(resume, job_desc)
    /\ UNCHANGED <<resume, job_desc>>
    /\ UNCHANGED <<session, pdf_call, parse_call>>

NextEval == Evaluate

SpecEval == InitEval /\ [][NextEval]_vars

(***************************************************************************)
(* SpecSkills: evaluate on job descriptions of fewer skills, for comparing *)
(* its result with those of the resumes that have fewer skills.            *)
(***************************************************************************)
\* how many of JobSkillNames the job descriptions compared on draw from
MaxComparedSkills == 3

InitSkills ==
    /\ resume \in Resumes
    /\ job_desc \in [id : {"j1"},
                     must_have_skills : ListsOver(JobSkillNames, MaxComparedSkills),
                     good_to_have_skills : ListsOver(JobSkillNames, MaxComparedSkills)]
    /\ evaluation = NoResult
    /\ job_descriptions = <<>>
    /\ evaluations = <<>>
    /\ tmp_files = 0
    /\ PDF_AVAILABLE = TRUE
    /\ last = Idle("start")
    /\ file_bytes = NoFile
    /\ extraction = NoCall
    /\ jd_document = <<>>
    /\ parsed_job = NoCall

NextSkills == Evaluate

SpecSkills == InitSkills /\ [][NextSkills]_vars

(***************************************************************************)
(* SpecPdf: extract_text_from_pdf as a function of the file it is given    *)
(* and of whether the document libraries were imported.                    *)
(***************************************************************************)
\* pages a pass reads before it ends or fails, at most
MaxPages == 2

\* what extract_text() of a page gives: nothing, or some text
PageTexts == {<<>>, <<"Python">>, <<"SQL", " ">>}

PageLists == UNION { [1..n -> PageTexts] : n \in 0..MaxPages }

\* a pass over the pages: the texts it read, and whether it then ended or raised
Passes == { Pass(ok, pages) : ok \in BOOLEAN, pages \in PageLists }

InitPdf ==
    /\ file_bytes \in { File("pdf", write_ok, TRUE, <<>>, first, second) :
                          write_ok \in BOOLEAN, first \in Passes, second \in Passes }
    /\ extraction = NoCall
    /\ PDF_AVAILABLE \in BOOLEAN
    /\ job_descriptions = <<>>
    /\ evaluations = <<>>
    /\ tmp_files = 0
    /\ last = Idle("start")
    /\ resume = NoCall
    /\ job_desc = NoCall
    /\ evaluation = NoResult
    /\ jd_document = <<>>
    /\ parsed_job = NoCall

\* one call of DocumentProcessor.extract_text_from_pdf(file_bytes)
ExtractTextFromPdf ==
    /\ extraction = NoCall
    /\ extraction' = extract_text_from_pdf(file_bytes, PDF_AVAILABLE)
    /\ tmp_files' = tmp_files + extraction'.leaked
    /\ UNCHANGED <<file_bytes, PDF_AVAILABLE, job_descriptions, evaluations, last>>
    /\ UNCHANGED <<call, parse_call>>

NextPdf == ExtractTextFromPdf

SpecPdf == InitPdf /\ [][NextPdf]_vars

(***************************************************************************)
(* SpecParse: JobDescriptionParser.parse as a function of the text it is   *)
(* given.                                                                  *)
(***************************************************************************)
\* pieces a job description text is made of, at most
MaxTextLen == 4

\* the pieces: the three headings of the must-have patterns, a word of the
\* vocabulary, a word of two letters, a separator, white space, and a code
\* point that cannot be encoded
JdPieces ==
    {"Required Skills:", "Must have:", "Mandatory:", "Python", "Go", ",", " ", Surrogate}

JdTexts == UNION { [1..n -> JdPieces] : n \in 0..MaxTextLen }

\* the exception that left parse
Raised == [id |-> "raised"]

InitParse ==
    /\ jd_document \in JdTexts
    /\ parsed_job = NoCall
    /\ PDF_AVAILABLE = TRUE
    /\ job_descriptions = <<>>
    /\ evaluations = <<>>
    /\ tmp_files = 0
    /\ last = Idle("start")
    /\ resume = NoCall
    /\ job_desc = NoCall
    /\ evaluation = NoResult
    /\ file_bytes = NoFile
    /\ extraction = NoCall

\* one call of job_parser.parse(jd_text, company, location)
ParseJobDescription ==
    /\ parsed_job = NoCall
    /\ IF IdRaises(jd_document)
       THEN parsed_job' = Raised
       ELSE \E company \in Companies, location \in Locations :
                parsed_job' \in JobParses(jd_document, company, location)
    /\ UNCHANGED <<jd_document, session>>
    /\ UNCHANGED <<call, pdf_call>>

NextParse == ParseJobDescription

SpecParse == InitParse /\ [][NextParse]_vars

(***************************************************************************)
(* Exact arithmetic on doubles, for stating what a float is worth.         *)
(***************************************************************************)
\* x * c, exactly
ExactTimes(x, c) == FCanon(BMulSmall(x.m, c), x.e)

\* x + y, exactly
ExactAdd(x, y) ==
    LET e == IF x.e < y.e THEN x.e ELSE y.e
    IN  FCanon(BAdd(BShl(x.m, x.e - e), BShl(y.m, y.e - e)), e)

Evaluated == evaluation # NoResult

\* |must-have| and |good-to-have| of the job, and how many of each the resume has
NMust == Cardinality(Range(job_desc.must_have_skills))

NGood == Cardinality(Range(job_desc.good_to_have_skills))

NMustHit == Cardinality(Range(job_desc.must_have_skills) \cap LowerSet(resume.skills))

NGoodHit == Cardinality(Range(job_desc.good_to_have_skills) \cap LowerSet(resume.skills))

HasExperience == resume.experience # <<>>

HasEducation == resume.education # <<>>

HasProjects == resume.projects # <<>>

\* the sizes and section tests of the state, as ScoreTable is indexed
Sizes == <<NMustHit, NMust, NGoodHit, NGood, HasExperience, HasEducation, HasProjects>>

SectionPointsOf(k) ==
    (IF k[5] THEN 15 ELSE 0) + (IF k[6] THEN 10 ELSE 0) + (IF k[7] THEN 5 ELSE 0)

SectionPoints == SectionPointsOf(Sizes)

\* the formula A + B + 15[..] + 10[..] + 5[..] as the fraction FormulaNum / FormulaDen
FormulaDen(k) == (IF k[2] = 0 THEN 1 ELSE k[2]) * (IF k[4] = 0 THEN 1 ELSE k[4])

FormulaNum(k) ==
    (IF k[2] = 0 THEN 0 ELSE 50 * k[1] * (IF k[4] = 0 THEN 1 ELSE k[4]))
    + (IF k[4] = 0 THEN 0 ELSE 20 * k[3] * (IF k[2] = 0 THEN 1 ELSE k[2]))
    + SectionPointsOf(k) * FormulaDen(k)

\* how the tabulated score of each entry compares with 0, 50, 75 and 100
Thresholds ==
    Computed([k \in DOMAIN ScoreTable |->
                [ge0   |-> FCmp(ScoreTable[k], FInt(0)) >= 0,
                 ge50  |-> FCmp(ScoreTable[k], FInt(50)) >= 0,
                 ge75  |-> FCmp(ScoreTable[k], FInt(75)) >= 0,
                 le100 |-> FCmp(ScoreTable[k], FInt(100)) <= 0]])

\* whether the tabulated score of each entry is the value of the formula, exactly
IsFormula ==
    Computed([k \in DOMAIN ScoreTable |->
                ExactTimes(ScoreTable[k], FormulaDen(k)) = FInt(FormulaNum(k))])

Tolerance == [m |-> <<1>>, e |-> -30]

Within(x, y, slack) ==
    /\ FCmp(ExactAdd(x, slack), y) >= 0
    /\ FCmp(ExactAdd(y, slack), x) >= 0

\* whether it is within Tolerance of the value of the formula
IsNearFormula ==
    Computed([k \in DOMAIN ScoreTable |->
                Within(ExactTimes(ScoreTable[k], FormulaDen(k)), FInt(FormulaNum(k)),
                       ExactTimes(Tolerance, FormulaDen(k)))])

C2_ScoreEqualsFormula == Evaluated => IsFormula[Sizes]

(***************************************************************************)
(* C2 amended: the score is that formula up to the rounding of double      *)
(* arithmetic (within 2^-30 of it, not always equal to it); an empty       *)
(* must-have or good-to-have set contributes exactly 0; with both sets     *)
(* empty and experience, education and projects present the score is       *)
(* exactly 30 and the verdict LOW.                                         *)
(***************************************************************************)
C2_ScoreIsFormulaRounded ==
    Evaluated =>
        /\ IsNearFormula[Sizes]
        /\ NMust = 0 =>
             ScoreTable[Sizes] = ScoreTable[<<0, 1, NGoodHit, NGood,
                                              HasExperience, HasEducation, HasProjects>>]
        /\ NGood = 0 =>
             ScoreTable[Sizes] = ScoreTable[<<NMustHit, NMust, 0, 1,
                                              HasExperience, HasEducation, HasProjects>>]
        /\ (NMust = 0 /\ NGood = 0) => ScoreTable[Sizes] = FInt(SectionPoints)
        /\ (NMust = 0 /\ NGood = 0 /\ SectionPoints = 30) =>
               /\ evaluation.relevance_score = 3000
               /\ evaluation.verdict = "LOW"

\* both skill sets empty, all three sections present: 30, LOW
C2_Witness ==
    /\ Evaluated
    /\ job_desc.must_have_skills = <<>>
    /\ job_desc.good_to_have_skills = <<>>
    /\ resume.skills # <<>>
    /\ SectionPoints = 30
    /\ evaluation.relevance_score = 3000
    /\ evaluation.verdict = "LOW"

(***************************************************************************)
(* C3: matched_skills is a subset of the job's must-have and good-to-have  *)
(* skills, missing_skills is a subset of its must-have skills, and         *)
(* missing_skills shares no element with the resume's lower-cased skills.  *)
(***************************************************************************)
C3_MatchedAndMissing ==
    Evaluated =>
        /\ Range(evaluation.matched_skills) \subseteq
               Range(job_desc.must_have_skills) \cup Range(job_desc.good_to_have_skills)
        /\ Range(evaluation.missing_skills) \subseteq Range(job_desc.must_have_skills)
        /\ Range(evaluation.missing_skills) \cap LowerSet(resume.skills) = {}

\* a good-to-have skill the resume lacks is not reported missing
C3_Witness ==
    /\ Evaluated
    /\ evaluation.matched_skills # <<>>
    /\ evaluation.missing_skills # <<>>
    /\ \E s \in Range(job_desc.good_to_have_skills) :
           /\ s \notin LowerSet(resume.skills)
           /\ s \notin Range(job_desc.must_have_skills)

(***************************************************************************)
(* The pages: what the claims about them speak of.                         *)
(***************************************************************************)
IsPrefix(a, b) == Len(a) <= Len(b) /\ SubSeq(b, 1, Len(a)) = a

SupportedExtensions == {"pdf", "docx", "doc", "txt"}

\* the run called extract_text on an uploaded file
Extracted ==
    /\ last.ext # ""
    /\ \/ last.action = "upload_job_description"
       \/ last.action = "upload_resume" /\ last.button

(***************************************************************************)
(* C4: every temporary file an extraction call created is removed by the   *)
(* time the call returns, on every exit path; so no run of a page leaves   *)
(* one on disk.                                                            *)
(***************************************************************************)
C4_TempFilesRemoved == tmp_files = 0

(***************************************************************************)
(* C5: extract_text returns a string for every uploaded file: no exception *)
(* leaves it, and when the extraction failed the string is empty.          *)
(***************************************************************************)
C5_ExtractTextAlwaysReturns ==
    Extracted => /\ ~last.raised
                 /\ last.failed => last.no_text

(***************************************************************************)
(* C6, as claimed: the button pressed with an empty company name or with   *)
(* no text reports an error, does not run the parser and leaves            *)
(* job_descriptions as it was; and no stored JobDescription has an empty   *)
(* company or an empty text.                                               *)
(***************************************************************************)
RejectsMissingInput ==
    (/\ last'.action = "upload_job_description"
     /\ last'.button
     /\ last'.company = "" \/ last'.no_text)
    => /\ last'.errors # <<>>
       /\ last'.parsed = "no"
       /\ job_descriptions' = job_descriptions

C6_NoEmptyCompanyOrText ==
    /\ [][RejectsMissingInput]_vars
    /\ [](\A i \in DOMAIN job_descriptions :
             /\ job_descriptions[i].company # ""
             /\ job_descriptions[i].description # <<>>)

(***************************************************************************)
(* C6, amended: the same rejection; no stored JobDescription has an empty  *)
(* company, and a JobDescription is stored only by a run that was given a  *)
(* company and a non-empty text.  (The text it stores is the normalised    *)
(* one, which is empty when the text given was white space only.)          *)
(***************************************************************************)
StoresOnlyGivenInput ==
    job_descriptions' # job_descriptions
    => /\ last'.action = "upload_job_description"
       /\ last'.button
       /\ last'.company # ""
       /\ ~last'.no_text

C6_NoEmptyCompany ==
    /\ [][RejectsMissingInput]_vars
    /\ [][StoresOnlyGivenInput]_vars
    /\ [](\A i \in DOMAIN job_descriptions : job_descriptions[i].company # "")

\* the button was pressed without a company name, with a job description stored
\* before, and a stored job description has an empty text
C6_Witness ==
    /\ last.action = "upload_job_description"
    /\ last.button
    /\ last.company = ""
    /\ ~last.no_text
    /\ \E i \in DOMAIN job_descriptions : job_descriptions[i].description = <<>>

(***************************************************************************)
(* C7: for a file whose extension is none of pdf, docx, doc, txt,          *)
(* extract_text returns the empty string and reports an error; and when    *)
(* the text extracted from a resume is empty, the run reports a message,   *)
(* does not run the parser and appends no EvaluationResult.                *)
(***************************************************************************)
C7_UnsupportedOrEmpty ==
    [][/\ (/\ Extracted'
           /\ Lower(last'.ext) \notin SupportedExtensions)
          => /\ last'.no_text
             /\ ~last'.raised
             /\ \E i \in DOMAIN last'.errors : last'.errors[i] = "Unsupported file format"
       /\ (/\ last'.action = "upload_resume"
           /\ last'.button
           /\ ~last'.raised
           /\ last'.no_text)
          => /\ last'.errors # <<>>
             /\ last'.parsed = "no"
             /\ ~last'.uncaught
             /\ evaluations' = evaluations
             /\ job_descriptions' = job_descriptions]_vars

\* an .rtf resume was submitted against a stored job description
C7_Witness ==
    /\ last.action = "upload_resume"
    /\ last.button
    /\ last.ext = "rtf"
    /\ last.no_text
    /\ job_descriptions # <<>>

(***************************************************************************)
(* C8: an exception raised while a job description or a resume is parsed   *)
(* or a resume is evaluated is caught by the page, reported as an error,   *)
(* and leaves both lists exactly as they were.                             *)
(***************************************************************************)
C8_ParseExceptionCaught ==
    [][last'.parsed = "raised"
       => /\ ~last'.uncaught
          /\ last'.errors # <<>>
          /\ job_descriptions' = job_descriptions
          /\ evaluations' = evaluations]_vars

\* the resume parser raised, with a job description and an evaluation stored
C8_Witness ==
    /\ last.action = "upload_resume"
    /\ last.parsed = "raised"
    /\ job_descriptions # <<>>
    /\ evaluations # <<>>

C10_SuggestionsInOrder ==
    Evaluated =>
        LET sg    == evaluation.suggestions
            learn == evaluation.missing_skills # <<>>
            first == IF learn THEN 2 ELSE 1
        IN  /\ Len(sg) \in 1..4
            /\ sg[Len(sg)] = ClosingTip
            /\ learn =>
                   /\ sg[1].text = "Learn these key skills: "
                   /\ Len(sg[1].skills) \in 1..3
                   /\ Range(sg[1].skills) \subseteq Range(evaluation.missing_skills)
            /\ \A i \in first..Len(sg) : sg[i].text # "Learn these key skills: "
            /\ SubSeq(sg, first, Len(sg)) =
                   (IF resume.projects = <<>> THEN <<ProjectsLine>> ELSE <<>>)
                   \o (IF resume.experience = <<>> THEN <<ExperienceLine>> ELSE <<>>)
                   \o <<ClosingTip>>

\* four must-have skills missing, no projects, no experience: four lines, three skills named
C10_Witness ==
    /\ Evaluated
    /\ Len(evaluation.missing_skills) = 4
    /\ Len(evaluation.suggestions) = 4
    /\ Len(evaluation.suggestions[1].skills) = 3
    /\ evaluation.suggestions[2] = ProjectsLine
    /\ evaluation.suggestions[3] = ExperienceLine

(***************************************************************************)
(* extract_text_from_pdf on its own: what the claim about it speaks of.    *)
(***************************************************************************)
IsSuffix(a, b) == Len(a) <= Len(b) /\ SubSeq(b, Len(b) - Len(a) + 1, Len(b)) = a

\* the call was made, the temporary copy written, and the first pass raised
FirstPassFailed ==
    /\ extraction # NoCall
    /\ PDF_AVAILABLE
    /\ file_bytes.write_ok
    /\ ~file_bytes.first.ok

(***************************************************************************)
(* C11: when the first pass over a PDF fails the fallback pass is run (the *)
(* text it reads is returned, and no error reported, when it succeeds);    *)
(* when the fallback fails too, extract_text_from_pdf returns the empty    *)
(* string, whatever the passes had read, and reports the failure without   *)
(* raising.                                                                *)
(***************************************************************************)
C11_BothPassesFailGivesEmpty ==
    FirstPassFailed =>
        /\ ~extraction.raised
        /\ file_bytes.second.ok =>
               /\ extraction.errors = <<>>
               /\ IsSuffix(Strip(PyPdfText(file_bytes.second.pages)), extraction.text)
        /\ ~file_bytes.second.ok =>
               /\ extraction.errors # <<>>
               /\ extraction.text = <<>>

(***************************************************************************)
(* parse on its own: what the claim about the must-have skills speaks of.  *)
(***************************************************************************)
\* parse returned a JobDescription
Parsed == parsed_job # NoCall /\ parsed_job # Raised

\* the text the extractors of parse are given
CleanedDocument == _clean_text(jd_document)

\* one of the three headings matches the text
HeadingMatches ==
    \E i \in DOMAIN CleanedDocument :
        CleanedDocument[i] \in RequiredSkillsHeads \cup MustHaveHeads \cup MandatoryHeads

\* where the first of the three patterns, in their order, that matches the
\* text matches it
FirstHeading ==
    IF FirstMatch(CleanedDocument, RequiredSkillsHeads) # 0
    THEN FirstMatch(CleanedDocument, RequiredSkillsHeads)
    ELSE IF FirstMatch(CleanedDocument, MustHaveHeads) # 0
    THEN FirstMatch(CleanedDocument, MustHaveHeads)
    ELSE FirstMatch(CleanedDocument, MandatoryHeads)

(***************************************************************************)
(* C12: the must-have skills of a parsed job description are the words of  *)
(* the 7-term vocabulary found in the text exactly when none of the three  *)
(* headings matches it; when one matches, they are all tokens of the       *)
(* section of the first heading, in the patterns' order, that matches.     *)
(***************************************************************************)
C12_FallbackOnlyWithoutHeading ==
    Parsed =>
        /\ ~HeadingMatches =>
               Range(parsed_job.must_have_skills) = Range(Hits(JobVocabulary, CleanedDocument))
        /\ HeadingMatches =>
               Range(parsed_job.must_have_skills)
                   \subseteq Range(Tokens(Section(CleanedDocument, FirstHeading)))

C14_VerdictAgreesWithStoredScore ==
    (Evaluated /\ NMust <= 15 /\ NGood <= 10) =>
        /\ evaluation.verdict = "HIGH" <=> evaluation.relevance_score >= 7500
        /\ evaluation.verdict = "MEDIUM" <=>
               (evaluation.relevance_score >= 5000 /\ evaluation.relevance_score < 7500)
        /\ evaluation.verdict = "LOW" <=> evaluation.relevance_score < 5000

(***************************************************************************)
(* evaluate on resumes that differ in their skills only.                   *)
(***************************************************************************)
\* the resumes that differ from the one evaluated only in skills, and whose
\* skills are among its skills
ResumesWithFewerSkills ==
    { [resume EXCEPT !.skills = SelectSeq(resume.skills, LAMBDA w : w \in S)] :
        S \in SUBSET Range(resume.skills) }

\* LOW < MEDIUM < HIGH
Rank(verdict) ==
    CASE verdict = "LOW"    -> 0
      [] verdict = "MEDIUM" -> 1
      [] verdict = "HIGH"   -> 2

\* what evaluate stores of each tabulated score: round(score, 2) and the verdict
Stored ==
    Computed([k \in DOMAIN ScoreTable |->
                [relevance_score |-> FRound2(ScoreTable[k]),
                 verdict         |-> Verdict(ScoreTable[k])]])

\* the entry of ScoreTable with a and b skills matched in place of k's
Lesser(k, a, b) == <<a, k[2], b, k[4], k[5], k[6], k[7]>>

\* score1, with what is stored of it, is no higher than score: before and
\* after rounding, and in its verdict
NoHigher(score1, stored1, score, stored) ==
    /\ FCmp(score1, score) <= 0
    /\ stored1.relevance_score <= stored.relevance_score
    /\ Rank(stored1.verdict) <= Rank(stored.verdict)

\* the numbers <<a, b>> of matched must-have and good-to-have skills, no more
\* than those of entry k, whose entry is no higher than k's
NotAboveOf(k, score, stored) ==
    { c \in (0..k[1]) \X (0..k[3]) :
        NoHigher(ScoreTable[Lesser(k, c[1], c[2])], Stored[Lesser(k, c[1], c[2])],
                 score, stored) }

\* the entries of ScoreTable that the job descriptions compared on reach
ComparedKeys ==
    { k \in DOMAIN ScoreTable :
        /\ k[1] <= MaxResumeSkills /\ k[2] <= MaxComparedSkills
        /\ k[3] <= MaxResumeSkills /\ k[4] <= MaxComparedSkills }

NotAbove ==
    Computed([k \in ComparedKeys |-> NotAboveOf(k, ScoreTable[k], Stored[k])])

\* R1 fares no better than the resume evaluated: ok holds the numbers of
\* matched skills that give no more, matched and missing are the sets of
\* the result
NoBetter(r1, ok, matched, missing) ==
    /\ <<Cardinality(matched_must_have(r1, job_desc)),
         Cardinality(matched_good_to_have(r1, job_desc))>> \in ok
    /\ missing \subseteq missing_must_have(r1, job_desc)
    /\ MatchedSet(r1, job_desc) \subseteq matched

(***************************************************************************)
(* C15: for a fixed JobDescription and two Resumes R1, R2 that differ only *)
(* in skills, with skills(R1) a subset of skills(R2): the score of R1 is   *)
(* at most that of R2 (before and after rounding), the missing skills of   *)
(* R2 are among those of R1, the matched skills of R1 among those of R2,   *)
(* and the verdict of R2 is not lower than that of R1.  R2 is the resume   *)
(* evaluated, whose result stores the rounded score and the verdict of its *)
(* entry of the table; R1 ranges over the resumes with fewer skills.       *)
(***************************************************************************)
C15_MonotoneInSkills ==
    Evaluated =>
        /\ evaluation.relevance_score = Stored[Sizes].relevance_score
        /\ evaluation.verdict = Stored[Sizes].verdict
        /\ \A r1 \in ResumesWithFewerSkills :
               NoBetter(r1, NotAbove[Sizes], Range(evaluation.matched_skills),
                        Range(evaluation.missing_skills))

\* two skills more turn LOW into HIGH, and nothing is missing any more
C15_Witness ==
    /\ Evaluated
    /\ evaluation.verdict = "HIGH"
    /\ evaluation.missing_skills = <<>>
    /\ \E r1 \in ResumesWithFewerSkills :
           /\ r1.skills = <<>>
           /\ Stored[ScoreKey(r1, job_desc)].verdict = "LOW"
           /\ Cardinality(missing_must_have(r1, job_desc)) = 2
           /\ Stored[ScoreKey(r1, job_desc)].relevance_score < evaluation.relevance_score
====
